---- MODULE Spec2Model ----
(***************************************************************************)
(* Koncurent Hi-LYTE backend: the comprehensive extraction pipeline, the   *)
(* prepaid credit ledger and the request handlers around them.             *)
(*                                                                         *)
(* Money is counted in credit units of 0.0001 dollar, the price of one     *)
(* token (ai_extraction.py:115), so every amount the handlers compute is   *)
(* an integer.  Processing times are counted in centiseconds, the          *)
(* resolution of round(processing_time, 2) (ai_extraction_service.py:275). *)
(* Text is a sequence of one-character strings, so that lower() and the    *)
(* substring test `in` are computed rather than assumed.                   *)
(***************************************************************************)
EXTENDS Integers, Sequences, FiniteSets, TLC

VARIABLES users, ledger, drawings, pageFiles, extracted, divisions, apiKey,
          inflight, resp, served, probe

vars == <<users, ledger, drawings, pageFiles, extracted, divisions, apiKey,
          inflight, resp, served, probe>>

appvars == <<users, ledger, drawings, pageFiles, extracted, divisions, apiKey,
             inflight, resp, served>>

-----------------------------------------------------------------------------
(* Bounds of the model *)

MaxRequests == 2
MaxDivList == 2
MaxItemCount == 30
MaxReqCount == 50

(* Program constants, in credit units / tokens *)

SignupBonus == 100000
EstimatedCostPerPage == 2500
MinTokens == 500
TokensPerSecond == 200
CoverageCap == 100

-----------------------------------------------------------------------------
(* Small helpers *)

Min(a, b) == IF a <= b THEN a ELSE b
Max(a, b) == IF a >= b THEN a ELSE b
MaxOf(S) == CHOOSE x \in S : \A y \in S : y <= x

MinOf(S) == CHOOSE x \in S : \A y \in S : x <= y

RECURSIVE SumSeq(_)
SumSeq(s) == IF s = <<>> THEN 0 ELSE Head(s) + SumSeq(Tail(s))

SelectSeqIdx(s, I) == [k \in 1..Cardinality(I) |->
    s[CHOOSE i \in I : Cardinality({j \in I : j < i}) = k - 1]]

SeqsUpTo(S, n) == UNION {[1..k -> S] : k \in 0..n}

-----------------------------------------------------------------------------
(* Text: str.lower() and the substring test *)

LowerChar(c) ==
    IF c = "A" THEN "a" ELSE IF c = "B" THEN "b" ELSE IF c = "G" THEN "g" ELSE c

Lower(s) == [i \in 1..Len(s) |-> LowerChar(s[i])]

\* Python's `needle in hay` for strings
Contains(hay, needle) ==
    \E i \in 0..(Len(hay) - Len(needle)) :
        \A k \in 1..Len(needle) : hay[i + k] = needle[k]

-----------------------------------------------------------------------------
(* AIExtractionService._find_matching_division *)

\* csi_division.get('id') / .get('code') of a key that is absent
NoId == 0
NoCode == "None"

SyntheticDivision ==
    [id |-> 1, name |-> <<"G", "e", "n", "e", "r", "a", "l">>, code |-> "01 00 00"]

ExactMatches(csi, divs) ==
    {i \in 1..Len(divs) : divs[i].id = csi.id \/ divs[i].code = csi.code}

FuzzyMatches(csi, divs) ==
    {i \in 1..Len(divs) :
        \/ Contains(Lower(divs[i].name), Lower(csi.name))
        \/ Contains(Lower(csi.name), Lower(divs[i].name))}

FindMatchingDivisionNameOnly(csi, divs) ==
    IF FuzzyMatches(csi, divs) # {} THEN divs[MinOf(FuzzyMatches(csi, divs))]
    ELSE IF Len(divs) > 0 THEN divs[1]
    ELSE SyntheticDivision

FindMatchingDivisionSynthetic(csi, divs) ==
    IF ExactMatches(csi, divs) # {} THEN divs[MinOf(ExactMatches(csi, divs))]
    ELSE IF FuzzyMatches(csi, divs) # {} THEN divs[MinOf(FuzzyMatches(csi, divs))]
    ELSE SyntheticDivision

FindMatchingDivisionLastInList(csi, divs) ==
    IF ExactMatches(csi, divs) # {}
    THEN divs[CHOOSE i \in ExactMatches(csi, divs) :
                  \A j \in ExactMatches(csi, divs) : j <= i]
    ELSE IF FuzzyMatches(csi, divs) # {}
    THEN divs[CHOOSE i \in FuzzyMatches(csi, divs) :
                  \A j \in FuzzyMatches(csi, divs) : j <= i]
    ELSE IF Len(divs) > 0 THEN divs[1]
    ELSE SyntheticDivision

FindMatchingDivision(csi, divs) ==
    IF ExactMatches(csi, divs) # {} THEN divs[MinOf(ExactMatches(csi, divs))]
    ELSE IF FuzzyMatches(csi, divs) # {} THEN divs[MinOf(FuzzyMatches(csi, divs))]
    ELSE IF Len(divs) > 0 THEN divs[1]
    ELSE SyntheticDivision

-----------------------------------------------------------------------------
(* AIExtractionService._generate_combined_insights *)

\* Python evaluates (a / b) * k in binary64 and int() truncates.  With
\* k = 25 * 2^s the result is one less than a*k/b exactly when a*k/b is an
\* integer, the quotient a/b was rounded down by more than 8/25 of a unit in
\* its last place, and 25*a/b lies at most five binades above a/b's binade
\* floor (so that the product rounds below the integer).  The quantities
\* below are those of that computation, in integers.

\* The E with b * 2^E <= a < b * 2^(E+1), for a, b > 0
RECURSIVE BinaryExponent(_, _)
BinaryExponent(a, b) ==
    IF a >= 2 * b THEN BinaryExponent(a, 2 * b) + 1
    ELSE IF a < b THEN BinaryExponent(2 * a, b) - 1
    ELSE 0

RECURSIVE PowerOfTwo(_)
PowerOfTwo(n) == IF n = 0 THEN 1 ELSE 2 * PowerOfTwo(n - 1)

RECURSIVE PowerOfTwoMod(_, _)
PowerOfTwoMod(n, m) == IF n = 0 THEN 1 % m ELSE (2 * PowerOfTwoMod(n - 1, m)) % m

\* The part of a/b that rounding to 53 bits drops, in units of 1/b of a unit
\* in the last place
DroppedBits(a, b) ==
    ((a % b) * PowerOfTwoMod(52 - BinaryExponent(a, b), b)) % b

\* 25 * (a/b) <= 32 * 2^E: the product has 16 units of a/b in its last place
ProductInLowBinade(a, b) ==
    LET e == BinaryExponent(a, b)
    IN IF e >= 0 THEN 25 * a <= 32 * b * PowerOfTwo(e)
       ELSE 25 * a * PowerOfTwo(0 - e) <= 32 * b

\* int((a / b) * k) for k = 100 or 200
TruncatedProduct(a, b, k) ==
    LET exact == (a * k) \div b
    IN IF a = 0 \/ (a * k) % b # 0 THEN exact
       ELSE IF /\ ProductInLowBinade(a, b)
               /\ 8 * b < 25 * DroppedBits(a, b)
               /\ 2 * DroppedBits(a, b) < b
       THEN exact - 1
       ELSE exact

PercentExact(items, reqs) == (100 * items) \div reqs

\* int((len(items) / total_requirements) * 100), line 488
PercentBinary64(items, reqs) == TruncatedProduct(items, reqs, 100)

RequirementsCountWhateverSuccess(nlp) == nlp.reqs

RequirementsCount(nlp) == IF nlp.success THEN nlp.reqs ELSE 0

RequirementsCoverage(items, reqs) ==
    IF reqs > 0 /\ items > 0
    THEN Min(CoverageCap, PercentBinary64(items, reqs))
    ELSE 0

ExtractionQuality(total, coverage) ==
    IF total >= 15 /\ coverage >= 70 THEN "excellent"
    ELSE IF total >= 10 /\ coverage >= 50 THEN "good"
    ELSE IF total >= 5 /\ coverage >= 30 THEN "fair"
    ELSE "poor"

RecommendedActions(items, coverage, quality) ==
    (IF items < 5 THEN <<"manual_extraction">> ELSE <<>>)
    \o (IF coverage < 50 THEN <<"review_document">> ELSE <<>>)
    \o (IF quality = "excellent" THEN <<"template">> ELSE <<>>)

GenerateCombinedInsights(items, nlp) ==
    LET reqs == RequirementsCount(nlp)
        total == items + reqs
        coverage == RequirementsCoverage(items, reqs)
        quality == ExtractionQuality(total, coverage)
    IN [totalDataPoints |-> total,
        requirementsCoverage |-> coverage,
        recommendedActions |-> RecommendedActions(items, coverage, quality),
        extractionQuality |-> quality]

-----------------------------------------------------------------------------
(* The smart-extraction and NLP results *)

\* One element of the response's extractedItems: the csiDivision the model
\* asked for, and whether location.coordinates is an object (a null makes
\* the row's source_location raise in the single-page handler).
ProcessedItem(raw, divs) ==
    LET division == FindMatchingDivision(raw.csi, divs)
    IN [csiDivision |-> [code |-> division.code, name |-> division.name,
                         id |-> division.id],
        coordsOk |-> raw.coordsOk]

\* The result of the except branch (lines 420-427)
SmartFailure ==
    [success |-> FALSE, extractedItems |-> <<>>,
     summary |-> [present |-> TRUE, totalItemsFound |-> 0, divisionsFound |-> 0]]

\* parsed_response.get('summary', {}) when the document has no summary
NoSummary == [present |-> FALSE, totalItemsFound |-> 0, divisionsFound |-> 0]

\* A response text is a sequence of characters: the braces, "w" for a JSON
\* whitespace character, "t" for any other character outside a document,
\* and "I" for the text of the members of a document,
\*     "extractedItems": [{...}, {...}], "summary": {...}
\* whose values decode to response.items and response.summary (the summary
\* member is absent when response.summary is NoSummary).  ConcreteText writes
\* the members out, since they hold braces of their own: "k" and "s" are the
\* two keys, "b" the body of an item object and "y" that of the summary.
RECURSIVE ItemsText(_)
ItemsText(items) ==
    IF items = <<>> THEN <<>>
    ELSE IF Len(items) = 1 THEN <<"{", "b", "}">>
    ELSE <<"{", "b", "}", ",">> \o ItemsText(Tail(items))

MembersText(response) ==
    <<"k", "[">> \o ItemsText(response.items) \o <<"]">>
    \o (IF response.summary.present THEN <<",", "s", "{", "y", "}">> ELSE <<>>)

RECURSIVE WriteOut(_, _)
WriteOut(text, response) ==
    IF text = <<>> THEN <<>>
    ELSE (IF Head(text) = "I" THEN MembersText(response) ELSE <<Head(text)>>)
         \o WriteOut(Tail(text), response)

ConcreteText(response) == WriteOut(response.text, response)

\* str.find and str.rfind, as 1-based positions with 0 for Python's -1
Find(text, c) ==
    IF \E i \in 1..Len(text) : text[i] = c
    THEN MinOf({i \in 1..Len(text) : text[i] = c})
    ELSE 0

RFind(text, c) ==
    IF \E i \in 1..Len(text) : text[i] = c
    THEN CHOOSE i \in 1..Len(text) :
             text[i] = c /\ \A j \in (i + 1)..Len(text) : text[j] # c
    ELSE 0

\* response_text[start_idx:end_idx + 1]: empty when the last '}' is before
\* the first '{'
JsonSlice(text) ==
    IF RFind(text, "}") < Find(text, "{") THEN <<>>
    ELSE SubSeq(text, Find(text, "{"), RFind(text, "}"))

IsBlank(str) == \A i \in 1..Len(str) : str[i] = "w"

\* json.loads of the slice.  Three kinds of slice are JSON documents: braces
\* around whitespace (an empty object); braces around the members, with
\* whitespace before and after them; and the object of one item or of the
\* summary on its own, which has neither an extractedItems nor a summary
\* member.  Anything else raises.
JsonLoads(str, response) ==
    LET n == Len(str)
        inner == SubSeq(str, 2, n - 1)
        members == MembersText(response)
        wrapped == n >= 2 /\ str[1] = "{" /\ str[n] = "}"
    IN  IF wrapped /\ IsBlank(inner)
        THEN [ok |-> TRUE, items |-> <<>>, summary |-> NoSummary]
        ELSE IF wrapped /\ inner \in {<<"b">>, <<"y">>}
        THEN [ok |-> TRUE, items |-> <<>>, summary |-> NoSummary]
        ELSE IF /\ wrapped
                /\ \E i \in 1..Len(inner) :
                      /\ i + Len(members) - 1 <= Len(inner)
                      /\ SubSeq(inner, i, i + Len(members) - 1) = members
                      /\ IsBlank(SubSeq(inner, 1, i - 1))
                      /\ IsBlank(SubSeq(inner, i + Len(members), Len(inner)))
        THEN [ok |-> TRUE, items |-> response.items, summary |-> response.summary]
        ELSE [ok |-> FALSE, items |-> <<>>, summary |-> NoSummary]

\* item.get('location', {}).get('confidence', 0.8) raises when the item's
\* location is null
ItemRaises(raw) == ~raw.locationOk

\* The try block (lines 383-418): whether it raises, and what it returns
\* otherwise
ParseBody(response, divs) ==
    LET text == ConcreteText(response)
        parsed == JsonLoads(JsonSlice(text), response)
    IN  IF Find(text, "{") = 0 \/ RFind(text, "}") = 0
        THEN [raised |-> TRUE, value |-> SmartFailure]
        ELSE IF ~parsed.ok
        THEN [raised |-> TRUE, value |-> SmartFailure]
        ELSE IF \E i \in 1..Len(parsed.items) : ItemRaises(parsed.items[i])
        THEN [raised |-> TRUE, value |-> SmartFailure]
        ELSE [raised |-> FALSE,
              value |-> [success |-> TRUE,
                         extractedItems |-> [i \in 1..Len(parsed.items) |->
                                                ProcessedItem(parsed.items[i], divs)],
                         summary |-> parsed.summary]]

ParseSmartExtractionResponseKeepsProcessed(response, divs) ==
    LET text == ConcreteText(response)
        parsed == IF Find(text, "{") = 0 \/ RFind(text, "}") = 0
                  THEN [ok |-> FALSE, items |-> <<>>, summary |-> NoSummary]
                  ELSE JsonLoads(JsonSlice(text), response)
        upto == IF \E i \in 1..Len(parsed.items) : ItemRaises(parsed.items[i])
                THEN MinOf({i \in 1..Len(parsed.items) : ItemRaises(parsed.items[i])}) - 1
                ELSE Len(parsed.items)
    IN  IF ParseBody(response, divs).raised
        THEN [success |-> FALSE,
              extractedItems |-> [i \in 1..upto |-> ProcessedItem(parsed.items[i], divs)],
              summary |-> SmartFailure.summary]
        ELSE ParseBody(response, divs).value

ParseSmartExtractionResponse(response, divs) ==
    IF ParseBody(response, divs).raised THEN SmartFailure
    ELSE ParseBody(response, divs).value

\* The response text of one call of the pipeline: a JSON document, or prose
\* without one; the summary the model reports is the number of items it lists
ResponseOf(in) ==
    [text |-> IF in.parsable THEN <<"{", "I", "}">> ELSE <<"t">>,
     items |-> in.items,
     summary |-> [present |-> TRUE, totalItemsFound |-> Len(in.items),
                  divisionsFound |-> 0]]

SmartExtractionAnalysis(in, divs) ==
    IF ~in.smartLlmOk THEN SmartFailure
    ELSE ParseSmartExtractionResponse(ResponseOf(in), divs)

EnhancedNlpAnalysis(in) ==
    IF ~in.nlpLlmOk THEN [success |-> FALSE, reqs |-> 0]
    ELSE [success |-> TRUE, reqs |-> in.reqs]

-----------------------------------------------------------------------------
(* AIExtractionService.comprehensive_extraction, as one call *)

\* What the environment decides for one call: whether tesseract succeeds,
\* whether the image file can be read for base64, whether each LLM call
\* returns, whether the smart response is parsable JSON and which raw items
\* it holds, the NLP summary's totalRequirements, and the wall-clock time.
ComprehensiveExtraction(in, divs) ==
    IF ~in.readOk
    THEN [hasSmart |-> FALSE,
          smart |-> SmartFailure,
          nlp |-> [success |-> FALSE, reqs |-> 0],
          insights |-> GenerateCombinedInsights(0, [success |-> FALSE, reqs |-> 0]),
          totalTime |-> in.time,
          calls |-> <<"ocr">>]
    ELSE LET smart == SmartExtractionAnalysis(in, divs)
             nlp == EnhancedNlpAnalysis(in)
         IN [hasSmart |-> TRUE,
             smart |-> smart,
             nlp |-> nlp,
             insights |-> GenerateCombinedInsights(Len(smart.extractedItems), nlp),
             totalTime |-> in.time,
             calls |-> <<"ocr", "smart_llm", "nlp_llm", "insights">>]

SmartSucceededKeyOnly(result) == result.hasSmart

SmartSucceededWithNlp(result) ==
    result.hasSmart /\ result.smart.success /\ result.nlp.success

\* extraction_result.get('smartExtraction', {}).get('success', False)
SmartSucceeded(result) == result.hasSmart /\ result.smart.success

-----------------------------------------------------------------------------
(* The credit ledger: models.User.get_credit_balance, CreditService *)

UserTx(L, u) == SelectSeq(L, LAMBDA t : t.user_id = u)

GetCreditBalance(L, u) ==
    SumSeq([i \in 1..Len(UserTx(L, u)) |-> UserTx(L, u)[i].amount])

HasSufficientCreditsNoCheck(U, L, u, estimated) == u \in U

HasSufficientCredits(U, L, u, estimated) ==
    u \in U /\ GetCreditBalance(L, u) >= estimated

UsageTxOfOtherUser(L, u, amount, operation, tokens) ==
    LET other == IF u = 1 THEN 2 ELSE 1
    IN [user_id |-> other, type |-> "usage", amount |-> 0 - amount,
        balance |-> GetCreditBalance(L, other) - amount,
        operation |-> operation, tokensUsed |-> tokens]

UsageTx(L, u, amount, operation, tokens) ==
    [user_id |-> u, type |-> "usage", amount |-> 0 - amount,
     balance |-> GetCreditBalance(L, u) - amount,
     operation |-> operation, tokensUsed |-> tokens]

CommitTransactionKeepsFailedWrite(L, tx, commitOk) ==
    [ok |-> commitOk, ledger |-> Append(L, tx)]

CommitTransactionTwice(L, tx, commitOk) ==
    IF commitOk
    THEN [ok |-> TRUE, ledger |-> Append(Append(L, tx), tx)]
    ELSE [ok |-> FALSE, ledger |-> L]

\* deduct_credits, lines 52-59: db.session.add and commit; when the commit
\* raises the session is rolled back and None is returned.
CommitTransaction(L, tx, commitOk) ==
    IF commitOk
    THEN [ok |-> TRUE, ledger |-> Append(L, tx)]
    ELSE [ok |-> FALSE, ledger |-> L]

\* deduct_credits without another session's commit between its read of the
\* balance and its own commit: the ledger after the call, and whether a
\* transaction was returned (None when the user is missing or the commit
\* raised).
DeductCredits(U, L, u, amount, operation, tokens, commitOk) ==
    IF u \in U
    THEN CommitTransaction(L, UsageTx(L, u, amount, operation, tokens), commitOk)
    ELSE [ok |-> FALSE, ledger |-> L]

\* tokens_used = max(500, int(processing_time * 200)): the time is
\* round(total_time, 2) seconds, that is time / 100 in binary64, and the
\* product is evaluated in binary64 (2.51 s gives 501, not 502)
TokensUsed(time) ==
    Max(MinTokens, TruncatedProduct(time, 100, TokensPerSecond))

\* credit_cost = tokens_used * 0.0001 dollar, i.e. one credit unit per token
CreditCost(tokens) == tokens

-----------------------------------------------------------------------------
(* Inputs the environment may supply *)

Users == {1, 2}
DrawingIds == {1, 2}
PageNumbers == {1, 2}

\* totalTime values, in centiseconds: 1 s (cost 0.05), 490 s (cost 9.80,
\* which leaves 0.20 of the bonus) and 600 s (cost 12.00, above the bonus)
ProcessingTimes == {100, 49000, 60000}

\* The divisions init_db.create_construction_divisions seeds, cut to two
SeedDivisions ==
    << [id |-> 1, name |-> <<"a">>, code |-> "c1"],
       [id |-> 2, name |-> <<"A", "b">>, code |-> "c2"] >>

\* Divisions a client may POST to /construction-divisions
DivisionPool ==
    { [code |-> "c1", name |-> <<"b">>], [code |-> "c3", name |-> <<"B">>] }

\* Raw items of a smart-extraction response: one asking for division id 2,
\* one asking for an unknown code by name, one whose coordinates are null,
\* one that matches no seeded division
ItemById == [csi |-> [id |-> 2, code |-> NoCode, name |-> <<>>], coordsOk |-> TRUE, locationOk |-> TRUE]
ItemByName == [csi |-> [id |-> NoId, code |-> "c9", name |-> <<"A">>], coordsOk |-> TRUE, locationOk |-> TRUE]
ItemNoCoords == [csi |-> [id |-> 1, code |-> NoCode, name |-> <<"a">>], coordsOk |-> FALSE, locationOk |-> TRUE]
ItemUnmatched ==
    [csi |-> [id |-> NoId, code |-> NoCode, name |-> <<"b", "b">>], coordsOk |-> TRUE, locationOk |-> TRUE]

ItemLists ==
    {<<>>, <<ItemById>>, <<ItemByName, ItemById>>, <<ItemNoCoords, ItemUnmatched>>}

RequirementCounts == {2}

\* The environments of one comprehensive_extraction call that differ in
\* what the call returns: what is never read (the response of a call that
\* failed or was never made) is held at one value.
PipelineInputs ==
    {in \in [ocrOk : {TRUE}, readOk : BOOLEAN, smartLlmOk : BOOLEAN,
             parsable : BOOLEAN, items : ItemLists,
             nlpLlmOk : BOOLEAN, reqs : RequirementCounts, time : ProcessingTimes] :
        /\ ~in.readOk => ~in.smartLlmOk /\ ~in.nlpLlmOk
        /\ ~in.smartLlmOk => ~in.parsable
        /\ ~in.parsable => in.items = <<>> /\ in.time = 100}

\* The per-page environments of a bulk request
BulkPipelineInputs ==
    {in \in PipelineInputs : Len(in.items) <= 1 /\ in.time = 100 /\ in.nlpLlmOk = in.readOk}

\* Page files: no file, or the number of the upload that wrote it
NoFile == 0

-----------------------------------------------------------------------------
(* Responses *)

\* What a request answers, and below the line what it read and wrote on the
\* way (not sent to the client): the divisions it passed to the pipeline,
\* the upload whose page file the OCR opened and the upload whose page file
\* was read for the LLM calls, the number of transactions it appended to
\* the ledger and their sum.
NoResponse ==
    [op |-> "none", user |-> 0, drawing |-> 0, page |-> 0, status |-> 0,
     error |-> "", creditsRequired |-> FALSE, calls |-> <<>>,
     smartSuccess |-> FALSE, savedItemsCount |-> 0, tokensUsed |-> 0,
     cost |-> 0, itemDivisions |-> <<>>, processedPages |-> 0,
     pageResults |-> <<>>, pageTrace |-> <<>>, totalPages |-> 0,
     bodyOk |-> TRUE,
     divisionsData |-> <<>>, ocrImage |-> NoFile, image |-> NoFile,
     appended |-> 0, deducted |-> 0]

Response(op, u, d, p, status, error) ==
    [NoResponse EXCEPT !.op = op, !.user = u, !.drawing = d, !.page = p,
                       !.status = status, !.error = error]

-----------------------------------------------------------------------------
(* State after construction: create_all() on an empty database (app.py:128) *)
(* with or without the divisions init_db.py seeds, in a process started     *)
(* with or without ANTHROPIC_API_KEY, and no request in progress            *)

InitApp ==
    /\ users = {}
    /\ ledger = <<>>
    /\ drawings = <<>>
    /\ pageFiles = [p \in PageNumbers |-> NoFile]
    /\ extracted = <<>>
    /\ divisions \in {<<>>, SeedDivisions}
    /\ apiKey \in BOOLEAN
    /\ inflight = <<>>
    /\ resp = NoResponse
    /\ served = 0

-----------------------------------------------------------------------------
(* Requests in progress.  app.run (run_flask.py:24) serves every request in *)
(* a thread of its own, with a database session of its own; nothing in the  *)
(* handlers takes a lock, so the steps of two requests interleave wherever  *)
(* a handler waits or commits.  `inflight` lists the requests in progress   *)
(* in order of arrival: for each the position of its handler (pc), the      *)
(* response under construction (r) and the handler's locals.  `resp` is     *)
(* what the step just taken has answered: NoResponse when it has answered   *)
(* nothing.                                                                 *)

\* The threads the model lets run at a time
Workers == {1, 2}

ThreadFree == Len(inflight) < Cardinality(Workers)

\* A request arrives and a thread takes it
Serve == served < MaxRequests /\ ThreadFree /\ served' = served + 1

\* The request that arrives is answered within the step
AnswersAtOnce(response) == resp' = response /\ UNCHANGED inflight

\* The request that arrives stays in progress
Begins(locals) ==
    /\ inflight' = Append(inflight, locals)
    /\ resp' = NoResponse

Continues(id, locals) ==
    /\ inflight' = [inflight EXCEPT ![id] = locals]
    /\ resp' = NoResponse

Answers(id, response) ==
    /\ inflight' = SelectSeqIdx(inflight, DOMAIN inflight \ {id})
    /\ resp' = response

At(id, pc) == id \in DOMAIN inflight /\ inflight[id].pc = pc

-----------------------------------------------------------------------------
(* auth.register *)

SignupBonusTxWithoutBalance(u) ==
    [user_id |-> u, type |-> "signup_bonus", amount |-> SignupBonus,
     balance |-> 0, operation |-> "signup", tokensUsed |-> 0]

SignupBonusTx(u) ==
    [user_id |-> u, type |-> "signup_bonus", amount |-> SignupBonus,
     balance |-> SignupBonus, operation |-> "signup", tokensUsed |-> 0]

\* outcome: "ok", "rejected" (a validation failure or a duplicate, 400) or
\* "commit_failed" (any exception, rolled back, 500).  The user row and the
\* bonus transaction are written by the one commit of line 91.
Register(outcome) ==
    LET u == Cardinality(users) + 1
    IN /\ Serve
       /\ u \in Users
       /\ IF outcome = "ok"
          THEN /\ users' = users \cup {u}
               /\ ledger' = Append(ledger, SignupBonusTx(u))
               /\ AnswersAtOnce(Response("register", u, 0, 0, 201, ""))
          ELSE /\ UNCHANGED <<users, ledger>>
               /\ AnswersAtOnce(IF outcome = "rejected"
                                THEN Response("register", 0, 0, 0, 400, "rejected")
                                ELSE Response("register", 0, 0, 0, 500, "Registration failed"))
       /\ UNCHANGED <<drawings, pageFiles, extracted, divisions, apiKey, probe>>

-----------------------------------------------------------------------------
(* construction_divisions.create_construction_division *)

\* outcome: "ok"; "bad_body" (request.get_json() raises, the body is not an
\* object or has no name or no code: an exception at lines 24-27, before any
\* session call); or "commit_failed" (the commit of line 32 raises).  The
\* unique constraint on code makes the commit of a duplicate raise whatever
\* the outcome drawn.  Every exception is caught at line 34: rollback, 500.
CreateDivision(u, div, outcome) ==
    /\ Serve
    /\ u \in users
    /\ LET duplicate == \E i \in 1..Len(divisions) : divisions[i].code = div.code
       IN IF outcome # "ok" \/ duplicate
          THEN /\ UNCHANGED divisions
               /\ AnswersAtOnce(Response("division", u, 0, 0, 500, "Division creation failed"))
          ELSE /\ divisions' = Append(divisions,
                      [id |-> Len(divisions) + 1, name |-> div.name, code |-> div.code])
               /\ AnswersAtOnce(Response("division", u, 0, 0, 201, ""))
    /\ UNCHANGED <<users, ledger, drawings, pageFiles, extracted, apiKey, probe>>

\* ConstructionDivision.query.filter_by(is_active=True).all(): a division is
\* created active and no handler deactivates or deletes one.
ActiveDivisions == divisions

-----------------------------------------------------------------------------
(* drawings.upload_drawing and _convert_pdf_to_images.  An upload is known  *)
(* by a number; a page file is marked with the number of the upload that    *)
(* wrote it, and a drawing row carries the number of the upload that        *)
(* committed it.                                                            *)

\* What the three tests of lines 36-44 may find
UploadProblems == {"No file provided", "No file selected", "File type not allowed"}

\* The uploads that differ in what the handler does.  problem: what lines
\* 36-44 find ("none": the file is accepted); isPdf: the file name ends in
\* .pdf; converted: whether convert_from_path and makedirs return (if not,
\* no page is written and total_pages falls back to 1); n: the pages
\* pdf2image renders, read only when a PDF was converted: none for a PDF
\* without a page (the loop of lines 97-99 writes nothing and len(pages) is
\* 0).
PageCounts == {0} \cup PageNumbers

UploadInputs ==
    {up \in [problem : UploadProblems \cup {"none"}, isPdf : BOOLEAN,
             n : PageCounts, converted : BOOLEAN] :
        /\ up.problem # "none" => up.isPdf /\ up.converted /\ up.n = 1
        /\ ~up.isPdf => up.converted /\ up.n = 1
        /\ ~up.converted => up.n = 1}

UploadsInProgress == {id \in DOMAIN inflight : inflight[id].r.op = "upload"}

\* A number no upload in progress, page file or drawing row carries
NextUpload ==
    1 + MaxOf({0} \cup {inflight[id].upload : id \in UploadsInProgress}
                  \cup {pageFiles[p] : p \in PageNumbers}
                  \cup {drawings[d].upload : d \in 1..Len(drawings)})

\* Lines 36-62 and 91-95: the tests, file.save and convert_from_path.  The
\* model has room for as many drawings as DrawingIds names.
UploadBegin(u, up) ==
    /\ Serve
    /\ u \in users
    /\ LET base == Response("upload", u, 0, 0, 0, "")
       IN IF up.problem # "none"
          THEN AnswersAtOnce([base EXCEPT !.status = 400, !.error = up.problem])
          ELSE /\ Len(drawings) + Cardinality(UploadsInProgress)
                     < Cardinality(DrawingIds)
               /\ Begins(IF up.isPdf /\ up.converted /\ up.n > 0
                         THEN [pc |-> "pages", r |-> base, upload |-> NextUpload,
                               isPdf |-> up.isPdf, n |-> up.n, next |-> 1,
                               total |-> 1]
                         ELSE [pc |-> "add_drawing", r |-> base,
                               upload |-> NextUpload, isPdf |-> up.isPdf,
                               n |-> 1, next |-> 1,
                               total |-> IF up.isPdf /\ up.converted THEN 0 ELSE 1])
    /\ UNCHANGED <<users, ledger, drawings, pageFiles, extracted, divisions, apiKey>>

\* Lines 97-101, one turn of the loop: page.save on pages/page.<next>.png.
\* saved: whether it returns.  If it raises, the except of line 102 answers
\* total_pages = 1 and the pages written so far stay; damaged: whether the
\* file it was writing is left behind (PIL removes a file it has created and
\* leaves a file it has overwritten).  Once _convert_pdf_to_images has
\* returned its locals n and next are gone: they are set back to 1.
UploadWritePage(id, saved, damaged) ==
    /\ At(id, "pages")
    /\ LET me == inflight[id]
           p == me.next
       IN /\ pageFiles' = IF saved \/ damaged
                          THEN [pageFiles EXCEPT ![p] = me.upload]
                          ELSE pageFiles
          /\ Continues(id,
                IF ~saved THEN [me EXCEPT !.pc = "add_drawing", !.next = 1, !.n = 1]
                ELSE IF p = me.n
                THEN [me EXCEPT !.pc = "add_drawing", !.next = 1, !.n = 1, !.total = me.n]
                ELSE [me EXCEPT !.next = p + 1])
    /\ UNCHANGED <<users, ledger, drawings, extracted, divisions, apiKey, served>>

\* Lines 64-87: the Drawing row is added and committed.  commitOk: whether
\* everything from line 64 to the commit returns; if not, the except of line
\* 84 rolls back and the page files stay.
UploadCommit(id, commitOk) ==
    /\ At(id, "add_drawing")
    /\ LET me == inflight[id]
       IN IF commitOk
          THEN /\ drawings' = Append(drawings,
                                [user_id |-> me.r.user, total_pages |-> me.total,
                                 file_type |-> IF me.isPdf THEN "pdf" ELSE "png",
                                 upload |-> me.upload])
               /\ Answers(id, [me.r EXCEPT !.drawing = Len(drawings) + 1,
                                           !.status = 201])
          ELSE /\ UNCHANGED drawings
               /\ Answers(id, [me.r EXCEPT !.status = 500, !.error = "Upload failed"])
    /\ UNCHANGED <<users, ledger, pageFiles, extracted, divisions, apiKey, served>>

\* The handler: a request is at one of its steps
UploadDrawing ==
    \/ \E u \in Users, up \in UploadInputs : UploadBegin(u, up)
    \/ \E id \in DOMAIN inflight, saved \in BOOLEAN, damaged \in BOOLEAN :
          (saved => ~damaged) /\ UploadWritePage(id, saved, damaged)
    \/ \E id \in DOMAIN inflight, commitOk \in BOOLEAN : UploadCommit(id, commitOk)

-----------------------------------------------------------------------------
(* ai_extraction.comprehensive_extract_single_page *)

DrawingAccessibleAnyOwner(u, d) == d \in 1..Len(drawings)

\* Drawing.query.filter_by(id=drawing_id, user_id=current_user.id).first()
DrawingAccessible(u, d) == d \in 1..Len(drawings) /\ drawings[d].user_id = u

\* os.path.exists(UPLOAD_FOLDER/pages/page.<page>.png)
PageImageExists(p) == p \in PageNumbers /\ pageFiles[p] # NoFile

ExtractedRow(item, d, u, p, nlp) ==
    [drawing_id |-> d, user_id |-> u, division_id |-> item.csiDivision.id,
     type |-> "comprehensive_extraction", page |-> p, nlpContext |-> nlp.success]

\* The rows the loop of lines 134-175 adds to the session: an item whose row
\* cannot be built (coordinates is null) raises inside the per-item try and
\* is skipped.
SinglePageRows(result, d, u, p) ==
    LET items == result.smart.extractedItems
        good == {i \in 1..Len(items) : items[i].coordsOk}
        kept == SelectSeqIdx(items, good)
    IN [k \in 1..Len(kept) |-> ExtractedRow(kept[k], d, u, p, result.nlp)]

ItemDivisions(result) ==
    [i \in 1..Len(result.smart.extractedItems) |->
        result.smart.extractedItems[i].csiDivision]

SinglePageEstimate == EstimatedCostPerPage

\* Lines 34-72: the body, the drawing and the divisions.  bodyOk: whether
\* request.get_json() returns (it raises BadRequest on a body that is not
\* JSON, and data.get raises on a body that is not an object); p: the
\* body's page.  The exception is caught by the outer except.  The drawing
\* is read before the divisions: a drawing row, once there, stays as it is,
\* so the two queries give what they give at the time of the second.
SinglePageBegin(u, d, p, bodyOk) ==
    /\ Serve
    /\ u \in users
    /\ LET base == [Response("single", u, d, IF bodyOk THEN p ELSE 0, 0, "")
                       EXCEPT !.bodyOk = bodyOk]
       IN IF ~bodyOk
          THEN AnswersAtOnce([base EXCEPT !.status = 500,
                                 !.error = "Comprehensive extraction failed"])
          ELSE IF ~DrawingAccessible(u, d)
          THEN AnswersAtOnce([base EXCEPT !.status = 404,
                                 !.error = "Drawing not found or access denied"])
          ELSE Begins([pc |-> "check_credits",
                       r |-> [base EXCEPT !.divisionsData = ActiveDivisions]])
    /\ UNCHANGED <<users, ledger, drawings, pageFiles, extracted, divisions, apiKey>>

\* Lines 75-95: the page image, the service and the credit check.  The
\* ValueError AIExtractionService() raises at line 86 without an API key is
\* caught by the outer except.  The image is looked for before the balance
\* is read: a page file, once there, stays there, so the tests give what
\* they give at the time of the last one made.
SinglePageCheckCredits(id) ==
    /\ At(id, "check_credits")
    /\ LET me == inflight[id]
       IN IF ~PageImageExists(me.r.page)
          THEN Answers(id, [me.r EXCEPT !.status = 404,
                                        !.error = "Drawing image not found"])
          ELSE IF ~apiKey
          THEN Answers(id, [me.r EXCEPT !.status = 500,
                                        !.error = "Comprehensive extraction failed"])
          ELSE IF ~HasSufficientCredits(users, ledger, me.r.user, SinglePageEstimate)
          THEN Answers(id, [me.r EXCEPT !.status = 402,
                                        !.error = "Insufficient AI credits",
                                        !.creditsRequired = TRUE])
          ELSE Continues(id, [me EXCEPT !.pc = "ocr"])
    /\ UNCHANGED <<users, ledger, drawings, pageFiles, extracted, divisions,
                   apiKey, served>>

\* Line 100 and comprehensive_extraction up to perform_ocr's Image.open
\* (service lines 249 and 73): the OCR opens the page file as it is now,
\* and the thread then waits for tesseract (line 80).
SinglePageOcr(id) ==
    /\ At(id, "ocr")
    /\ LET me == inflight[id]
       IN Continues(id, [pc |-> "extract",
                         r |-> [me.r EXCEPT !.calls = <<"ocr">>,
                                            !.ocrImage = pageFiles[me.r.page]]])
    /\ UNCHANGED <<users, ledger, drawings, pageFiles, extracted, divisions,
                   apiKey, served>>

\* The rest of comprehensive_extraction (service lines 252-293) and lines
\* 106-110: the page file is read again, as it is now, for the LLM calls,
\* which are given the divisions read at line 45; the pipeline is in one of
\* the environments `ins`; a result without a successful smartExtraction is
\* answered 500.
SinglePageExtraction(id, ins) ==
    /\ At(id, "extract")
    /\ \E in \in ins :
          LET me == inflight[id]
              result == ComprehensiveExtraction(in, me.r.divisionsData)
              ran == [me.r EXCEPT !.calls = result.calls,
                                  !.smartSuccess = result.hasSmart /\ result.smart.success,
                                  !.image = pageFiles[me.r.page]]
          IN IF ~SmartSucceeded(result)
             THEN Answers(id, [ran EXCEPT !.status = 500, !.error = "Extraction failed"])
             ELSE Continues(id, [pc |-> "read_balance", r |-> ran, result |-> result])
    /\ UNCHANGED <<users, ledger, drawings, pageFiles, extracted, divisions,
                   apiKey, served>>

\* Lines 112-124 and deduct_credits, lines 31-50: the cost is computed, the
\* user is looked up, the balance is read and the transaction object is
\* built from it.
SinglePageReadBalance(id) ==
    /\ At(id, "read_balance")
    /\ LET me == inflight[id]
           tokens == TokensUsed(me.result.totalTime)
       IN IF me.r.user \notin users
          THEN Answers(id, [me.r EXCEPT !.status = 500,
                                        !.error = "Credit deduction failed"])
          ELSE Continues(id, [pc |-> "commit_usage", r |-> me.r, result |-> me.result,
                              pending |-> UsageTx(ledger, me.r.user, CreditCost(tokens),
                                                  "comprehensive_extraction", tokens)])
    /\ UNCHANGED <<users, ledger, drawings, pageFiles, extracted, divisions,
                   apiKey, served>>

\* deduct_credits, lines 52-59, and lines 126-127 of the handler: the
\* transaction is committed on its own.  commitOk: whether the commit
\* returns; if it raises, deduct_credits rolls back and returns None.
SinglePageCommitUsage(id, commitOk) ==
    /\ At(id, "commit_usage")
    /\ LET me == inflight[id]
           done == CommitTransaction(ledger, me.pending, commitOk)
           billed == [me.r EXCEPT
                         !.appended = @ + Len(done.ledger) - Len(ledger),
                         !.deducted = @ + GetCreditBalance(ledger, me.r.user)
                                        - GetCreditBalance(done.ledger, me.r.user)]
       IN /\ ledger' = done.ledger
          /\ IF done.ok
             THEN Continues(id, [pc |-> "save_rows", r |-> billed, result |-> me.result])
             ELSE Answers(id, [billed EXCEPT !.status = 500,
                                             !.error = "Credit deduction failed"])
    /\ UNCHANGED <<users, drawings, pageFiles, extracted, divisions, apiKey, served>>

\* Lines 129-203: the rows are added to the session and committed.
\* commitOk: whether the commit of line 177 returns; if it raises, the
\* rollback of line 206 drops the pending rows only: the usage transaction
\* is already committed.
SinglePageSaveRows(id, commitOk) ==
    /\ At(id, "save_rows")
    /\ LET me == inflight[id]
           tokens == TokensUsed(me.result.totalTime)
           rows == SinglePageRows(me.result, me.r.drawing, me.r.user, me.r.page)
       IN IF commitOk
          THEN /\ extracted' = extracted \o rows
               /\ Answers(id, [me.r EXCEPT !.status = 200,
                                           !.savedItemsCount = Len(rows),
                                           !.tokensUsed = tokens,
                                           !.cost = CreditCost(tokens),
                                           !.itemDivisions = ItemDivisions(me.result)])
          ELSE /\ UNCHANGED extracted
               /\ Answers(id, [me.r EXCEPT !.status = 500,
                                           !.error = "Comprehensive extraction failed"])
    /\ UNCHANGED <<users, ledger, drawings, pageFiles, divisions, apiKey, served>>

\* The environments of the pipeline in the requests of Spec: the NLP call
\* returns whenever the image could be read (its failure is the subject of
\* SpecNlp).  The cost is read from the time alone and the rows from the
\* items alone, so the long times come with the empty list only.
RequestInputs ==
    {in \in PipelineInputs :
        /\ in.nlpLlmOk = in.readOk
        /\ in.items \in {<<>>, <<ItemByName, ItemById>>, <<ItemNoCoords, ItemUnmatched>>}
        /\ in.time # 100 => in.items = <<>>}

\* The steps of a request in progress, with the pipeline in one of `ins`
SinglePageSteps(id, ins) ==
    \/ SinglePageCheckCredits(id)
    \/ SinglePageOcr(id)
    \/ SinglePageExtraction(id, ins)
    \/ SinglePageReadBalance(id)
    \/ \E commitOk \in BOOLEAN : SinglePageCommitUsage(id, commitOk)
    \/ \E commitOk \in BOOLEAN : SinglePageSaveRows(id, commitOk)

\* The handler: a request is at one of its steps
SinglePage ==
    /\ \/ \E u \in Users, d \in DrawingIds, p \in PageNumbers, bodyOk \in BOOLEAN :
             SinglePageBegin(u, d, p, bodyOk)
       \/ \E id \in DOMAIN inflight : SinglePageSteps(id, RequestInputs)
    /\ UNCHANGED probe

-----------------------------------------------------------------------------
(* ai_extraction.comprehensive_extract_all_pages *)

BulkEstimate(total) == total * EstimatedCostPerPage

BulkPageBillsUnreported(acc, result, page) ==
    [acc EXCEPT !.ledger =
        DeductCredits(users, acc.ledger, acc.user,
                      CreditCost(TokensUsed(result.totalTime)),
                      "bulk_comprehensive_extraction", 0, TRUE).ledger]

\* Line 280 names `self` in a module-level function: evaluating it raises
\* NameError before anything is saved or deducted; the except of line 309
\* logs it and the loop continues with the next page.
BulkPageSucceeded(acc, result, page) == acc

\* What the pipeline returned for one page, as the request observed it, and
\* the uploads whose page file the OCR opened and the LLM calls were sent
PageObservation(page, result, ocrImage, image) ==
    [page |-> page, success |-> result.hasSmart /\ result.smart.success,
     totalTime |-> result.totalTime, itemDivisions |-> ItemDivisions(result),
     ocrImage |-> ocrImage, image |-> image]

\* Lines 272-311, a turn of the loop once the OCR has opened the page file
\* (marked ocrImage then).  acc.ledger is the ledger as the turn finds it.
BulkPage(acc, page, in, divs, ocrImage) ==
    LET result == ComprehensiveExtraction(in, divs)
        called == [acc EXCEPT !.calls = acc.calls \o result.calls,
                      !.pageTrace = Append(acc.pageTrace,
                              PageObservation(page, result, ocrImage,
                                              pageFiles[page]))]
    IN IF SmartSucceeded(result)
       THEN BulkPageSucceeded(called, result, page)
       ELSE called

\* Lines 244-248: the locals of the loop
BulkStart(u) ==
    [user |-> u, calls |-> <<>>, allResults |-> <<>>, totalSaved |-> 0,
     totalCost |-> 0, totalTokens |-> 0, ledger |-> <<>>, rows |-> <<>>,
     pageTrace |-> <<>>]

\* Lines 219-227: the drawing, `drawing.total_pages or 1` (a drawing stored
\* with no page counts one) and the divisions (see SinglePageBegin for why
\* the two queries are one step)
BulkBegin(u, d) ==
    /\ Serve
    /\ u \in users
    /\ LET base == Response("bulk", u, d, 0, 0, "")
       IN IF ~DrawingAccessible(u, d)
          THEN AnswersAtOnce([base EXCEPT !.status = 404,
                                 !.error = "Drawing not found or access denied"])
          ELSE Begins([pc |-> "bulk_check",
                       r |-> [base EXCEPT !.divisionsData = ActiveDivisions],
                       next |-> 1,
                       total |-> IF drawings[d].total_pages = 0 THEN 1
                                 ELSE drawings[d].total_pages,
                       ocrImage |-> NoFile,
                       acc |-> BulkStart(u)])
    /\ UNCHANGED <<users, ledger, drawings, pageFiles, extracted, divisions, apiKey>>

\* Lines 229-250: the credit check and the service
BulkCheckCredits(id) ==
    /\ At(id, "bulk_check")
    /\ LET me == inflight[id]
       IN IF ~HasSufficientCredits(users, ledger, me.r.user, BulkEstimate(me.total))
          THEN Answers(id, [me.r EXCEPT
                               !.status = 402,
                               !.error = "Insufficient AI credits for bulk processing",
                               !.creditsRequired = TRUE,
                               !.totalPages = me.total])
          ELSE IF ~apiKey
          THEN Answers(id, [me.r EXCEPT
                               !.status = 500,
                               !.error = "Bulk comprehensive extraction failed"])
          ELSE Continues(id, [me EXCEPT !.pc = "bulk_page"])
    /\ UNCHANGED <<users, ledger, drawings, pageFiles, extracted, divisions,
                   apiKey, served>>

\* Lines 252-272 and comprehensive_extraction up to perform_ocr's Image.open
\* (service lines 249 and 73): a page without a page file is skipped;
\* otherwise the OCR opens the page file as it is now, and the thread then
\* waits for tesseract (line 80).  The file is looked for before it is
\* opened: a page file, once there, stays there.
BulkPageOcr(id) ==
    /\ At(id, "bulk_page")
    /\ LET me == inflight[id]
       IN IF PageImageExists(me.next)
          THEN Continues(id, [me EXCEPT !.pc = "bulk_extract",
                                        !.ocrImage = pageFiles[me.next]])
          ELSE Continues(id, [me EXCEPT
                                 !.pc = IF me.next = me.total THEN "bulk_commit"
                                        ELSE "bulk_page",
                                 !.next = me.next + 1])
    /\ UNCHANGED <<users, ledger, drawings, pageFiles, extracted, divisions,
                   apiKey, served>>

\* The rest of the turn (service lines 252-293, handler lines 278-311): the
\* page file is read again, as it is now, for the LLM calls, which are given
\* the divisions read at line 226.  What the turn appends to the ledger is
\* committed by deduct_credits at once.
BulkPageTurn(id, ins) ==
    /\ At(id, "bulk_extract")
    /\ \E in \in ins :
          LET me == inflight[id]
              after == BulkPage([me.acc EXCEPT !.ledger = ledger], me.next, in,
                                me.r.divisionsData, me.ocrImage)
              billed == [me.r EXCEPT
                            !.appended = @ + Len(after.ledger) - Len(ledger),
                            !.deducted = @ + GetCreditBalance(ledger, me.r.user)
                                           - GetCreditBalance(after.ledger, me.r.user)]
          IN /\ ledger' = after.ledger
             /\ Continues(id, [me EXCEPT
                                  !.pc = IF me.next = me.total THEN "bulk_commit"
                                         ELSE "bulk_page",
                                  !.next = me.next + 1,
                                  !.ocrImage = NoFile,
                                  !.r = billed,
                                  !.acc = [after EXCEPT !.ledger = <<>>]])
    /\ UNCHANGED <<users, drawings, pageFiles, extracted, divisions, apiKey, served>>

\* Lines 313-337.  commitOk: whether the commit of line 313 returns.
BulkCommit(id, commitOk) ==
    /\ At(id, "bulk_commit")
    /\ LET me == inflight[id]
           acc == me.acc
       IN IF commitOk
          THEN /\ extracted' = extracted \o acc.rows
               /\ Answers(id, [me.r EXCEPT !.status = 200,
                                  !.totalPages = me.total,
                                  !.calls = acc.calls,
                                  !.pageTrace = acc.pageTrace,
                                  !.processedPages = Len(acc.allResults),
                                  !.pageResults = acc.allResults,
                                  !.savedItemsCount = acc.totalSaved,
                                  !.tokensUsed = acc.totalTokens,
                                  !.cost = acc.totalCost])
          ELSE /\ UNCHANGED extracted
               /\ Answers(id, [me.r EXCEPT !.status = 500,
                                  !.calls = acc.calls,
                                  !.pageTrace = acc.pageTrace,
                                  !.error = "Bulk comprehensive extraction failed"])
    /\ UNCHANGED <<users, ledger, drawings, pageFiles, divisions, apiKey, served>>

\* The handler: a request is at one of its steps
BulkExtract ==
    /\ \/ \E u \in Users, d \in DrawingIds : BulkBegin(u, d)
       \/ \E id \in DOMAIN inflight : BulkCheckCredits(id)
       \/ \E id \in DOMAIN inflight : BulkPageOcr(id)
       \/ \E id \in DOMAIN inflight : BulkPageTurn(id, BulkPipelineInputs)
       \/ \E id \in DOMAIN inflight, commitOk \in BOOLEAN : BulkCommit(id, commitOk)
    /\ UNCHANGED probe

-----------------------------------------------------------------------------
(* The application with its first drawing: a user has registered (10        *)
(* credits) and uploaded a one-page PDF.                                    *)

\* The first user, drawing and page, and the number of the first upload
ConcurrentUser == 1
ConcurrentDrawing == 1
ConcurrentPage == 1
ConcurrentUpload == 1

\* The ledgers of a registered user who has spent nothing, or 9.75 in one
\* extraction of 487.5 s (balance 0.25)
ConcurrentLedgers ==
    LET fresh == <<SignupBonusTx(ConcurrentUser)>>
    IN {fresh,
        DeductCredits({ConcurrentUser}, fresh, ConcurrentUser,
                      CreditCost(TokensUsed(48750)), "comprehensive_extraction",
                      TokensUsed(48750), TRUE).ledger}

\* The state after the registration and the upload, and after the
\* extractions, if any, that have made the ledger L and found no item
WithFirstDrawing(L) ==
    /\ users = {ConcurrentUser}
    /\ ledger = L
    /\ drawings = <<[user_id |-> ConcurrentUser, total_pages |-> 1,
                     file_type |-> "pdf", upload |-> ConcurrentUpload]>>
    /\ pageFiles = [p \in PageNumbers |->
                       IF p = ConcurrentPage THEN ConcurrentUpload ELSE NoFile]
    /\ extracted = <<>>
    /\ divisions = SeedDivisions
    /\ apiKey = TRUE
    /\ inflight = <<>>
    /\ resp = NoResponse

\* The user has spent nothing yet
OneDrawingUploaded == WithFirstDrawing(<<SignupBonusTx(ConcurrentUser)>>)

\* The user has spent nothing yet, or 9.75
OneDrawingUploadedAndUsed == \E L \in ConcurrentLedgers : WithFirstDrawing(L)

-----------------------------------------------------------------------------
(* The requests of the application, served by concurrent threads, from the  *)
(* empty database or from the application with its first drawing            *)

Init ==
    /\ InitApp \/ (OneDrawingUploaded /\ served = 0)
    /\ probe = [kind |-> "none"]


Next ==
    \/ \E outcome \in {"ok", "rejected", "commit_failed"} : Register(outcome)
    \/ \E u \in Users, div \in DivisionPool,
          outcome \in {"ok", "bad_body", "commit_failed"} :
             CreateDivision(u, div, outcome)
    \/ UploadDrawing /\ UNCHANGED probe
    \/ SinglePage
    \/ BulkExtract

Spec == Init /\ [][Next]_vars

-----------------------------------------------------------------------------
(* Properties of the request handlers, checked under Spec.  A request takes *)
(* several steps, and steps of other requests may come between them: what a *)
(* request did is read from the record it carries (r, which becomes the     *)
(* response), and what the database was when it looked is the state of the  *)
(* step in which it looked.                                                 *)

UsageCount(L, u) ==
    Len(SelectSeq(L, LAMBDA t : t.user_id = u /\ t.type = "usage"))

IsPrefix(s, t) == Len(s) <= Len(t) /\ SubSeq(t, 1, Len(s)) = s

\* The number of requests answered so far
Answered == served - Len(inflight)

\* The step answers a request: resp' is its response
IsAnswer == Answered' = Answered + 1

IsSingleStep == IsAnswer /\ resp'.op = "single"
IsBulkStep == IsAnswer /\ resp'.op = "bulk"

\* The step is the arrival of a request; Arrived is the record of that
\* request after the step, and AnsweredAtOnce says it is already answered
Arrives == served' = served + 1
AnsweredAtOnce == Arrives /\ inflight' = inflight
Arrived == IF inflight' = inflight THEN resp' ELSE inflight'[Len(inflight')].r

\* The step is a step of the w-th request in progress: it is answered, or
\* it alone has moved; After(w) is the record of that request after the
\* step
Leaves(w) ==
    /\ IsAnswer /\ ~Arrives
    /\ inflight' = SelectSeqIdx(inflight, DOMAIN inflight \ {w})
Acts(w) ==
    /\ w \in DOMAIN inflight
    /\ \/ Leaves(w)
       \/ /\ ~Arrives /\ ~IsAnswer
          /\ inflight'[w] # inflight[w]
After(w) == IF Leaves(w) THEN resp' ELSE inflight'[w].r

\* The rows the step has committed
NewRows == SubSeq(extracted', Len(extracted) + 1, Len(extracted'))

NoProcessing == resp'.calls = <<>> /\ ledger' = ledger /\ extracted' = extracted

\* C1: a single-page request appends at most one usage transaction, to the
\* requesting user's ledger only: its arrival appends none, and each of its
\* later steps changes the number of usage transactions of each user by
\* what the request has appended for that user; it has appended exactly one
\* when it answers 200; and it appends one only if its smart extraction
\* succeeded.  So each usage transaction of a user belongs to a request of
\* that user of its own whose smart extraction succeeded.
C1_AtMostOnceBilling ==
    [][/\ (Arrives /\ Arrived.op = "single")
          => ledger' = ledger /\ Arrived.appended = 0
       /\ \A w \in DOMAIN inflight :
             (Acts(w) /\ inflight[w].r.op = "single")
             => /\ After(w).appended \in {inflight[w].r.appended, 1}
                /\ After(w).appended > 0 => After(w).smartSuccess
                /\ \A u \in Users :
                      UsageCount(ledger', u) - UsageCount(ledger, u)
                         = IF u = inflight[w].r.user
                           THEN After(w).appended - inflight[w].r.appended
                           ELSE 0
       /\ IsSingleStep
          => /\ resp'.appended <= 1
             /\ resp'.status = 200 => resp'.appended = 1
      ]_vars

C1_Witness ==
    /\ resp.op = "single" /\ resp.status = 200 /\ resp.appended = 1
    /\ UsageCount(ledger, resp.user) = 2

\* C2: when a single-page request ends, either its usage transaction and
\* all of its rows are committed (and it answered 200), or it has appended
\* no transaction and committed no row; a request that ends with 500 has
\* done neither.
C2_TransactionalPersistence ==
    [][IsSingleStep =>
        /\ \/ resp'.appended = 0 /\ extracted' = extracted
           \/ /\ resp'.status = 200
              /\ resp'.appended = 1
              /\ Len(extracted') = Len(extracted) + resp'.savedItemsCount
        /\ (resp'.status = 500 => resp'.appended = 0 /\ extracted' = extracted)
      ]_vars

\* C3: every user's credit balance is greater than or equal to zero.
C3_BalanceNeverNegative ==
    \A u \in users : GetCreditBalance(ledger, u) >= 0

RECURSIVE Flatten(_)
Flatten(ss) == IF ss = <<>> THEN <<>> ELSE Head(ss) \o Flatten(Tail(ss))

\* C4: a bulk request over a drawing whose page images all exist and whose
\* page extractions all succeed deducts, for each page, what a single-page
\* request deducts for the same pipeline result, and saves one row per
\* extracted item with the item's division id.
C4_BulkMatchesSinglePage ==
    [][(/\ IsBulkStep
        /\ resp'.status = 200
        /\ Len(resp'.pageTrace) = drawings[resp'.drawing].total_pages
        /\ \A i \in 1..Len(resp'.pageTrace) : resp'.pageTrace[i].success)
       =>
        LET trace == resp'.pageTrace
            ids == Flatten([i \in 1..Len(trace) |-> trace[i].itemDivisions])
        IN /\ resp'.appended = Len(trace)
           /\ resp'.deducted =
                 SumSeq([i \in 1..Len(trace) |->
                            CreditCost(TokensUsed(trace[i].totalTime))])
           /\ Len(NewRows) = Len(ids)
           /\ \A k \in 1..Len(ids) :
                 /\ NewRows[k].division_id = ids[k].id
                 /\ NewRows[k].drawing_id = resp'.drawing
      ]_vars

\* C6: a single-page request whose pipeline ran and returned no successful
\* smartExtraction answers 500 'Extraction failed', has appended no
\* transaction and commits no row.
C6_FailedExtractionNotBilled ==
    [][(IsSingleStep /\ resp'.calls # <<>> /\ ~resp'.smartSuccess) =>
        /\ resp'.status = 500
        /\ resp'.error = "Extraction failed"
        /\ resp'.appended = 0
        /\ ledger' = ledger
        /\ extracted' = extracted
      ]_vars

C6_Witness ==
    /\ resp.op = "single" /\ resp.error = "Extraction failed"
    /\ resp.calls = <<"ocr", "smart_llm", "nlp_llm", "insights">>
    /\ resp.appended = 0
    /\ ledger # <<>>

\* The step is the credit check of the w-th request in progress, and finds
\* the balance of the caller below the estimate
ShortOfCredits(w) ==
    /\ Acts(w)
    /\ \/ /\ inflight[w].pc = "check_credits"
          /\ GetCreditBalance(ledger, inflight[w].r.user) < SinglePageEstimate
       \/ /\ inflight[w].pc = "bulk_check"
          /\ GetCreditBalance(ledger, inflight[w].r.user)
                < BulkEstimate(inflight[w].total)

\* A single-page request arrives when the balance of the caller is below
\* the estimate
ArrivesShortOfCredits ==
    /\ Arrives
    /\ Arrived.op = "single"
    /\ GetCreditBalance(ledger, Arrived.user) < SinglePageEstimate

\* C7 as claimed: every request whose estimated cost exceeds the user's
\* balance is answered 402 with creditsRequired, and makes no OCR or LLM
\* call, appends no transaction and writes no row.
C7_InsufficientAlways402 ==
    [][/\ \A w \in DOMAIN inflight :
             ShortOfCredits(w)
             => Leaves(w) /\ resp'.status = 402 /\ resp'.creditsRequired /\ NoProcessing
       /\ (ArrivesShortOfCredits /\ AnsweredAtOnce)
             => resp'.status = 402 /\ resp'.creditsRequired /\ NoProcessing
      ]_vars

\* C7, amended: a request that finds the user's balance below its estimated
\* cost at its credit check is answered 402 with creditsRequired there and
\* then, unless it is a single-page request whose page image is missing
\* (404) or whose extraction service could not be constructed (500
\* 'Comprehensive extraction failed'); a request that ends before its
\* credit check (unreadable JSON body, drawing not found) is answered on
\* arrival; and none of these makes an OCR or LLM call, appends a
\* transaction or writes a row.
C7_CreditsCheckedBeforeProcessing ==
    [][/\ \A w \in DOMAIN inflight :
             ShortOfCredits(w)
             => /\ Leaves(w)
                /\ NoProcessing
                /\ resp'.appended = 0
                /\ IF resp'.op = "single" /\ ~PageImageExists(resp'.page)
                   THEN resp'.status = 404 /\ resp'.error = "Drawing image not found"
                   ELSE IF resp'.op = "single" /\ ~apiKey
                   THEN /\ resp'.status = 500
                        /\ resp'.error = "Comprehensive extraction failed"
                   ELSE resp'.status = 402 /\ resp'.creditsRequired
       /\ (AnsweredAtOnce /\ resp'.op \in {"single", "bulk"})
             => /\ NoProcessing
                /\ resp'.appended = 0
                /\ resp'.status \in {404, 500}
      ]_vars

C7_Witness ==
    /\ resp.op = "single" /\ resp.status = 402 /\ resp.creditsRequired
    /\ resp.calls = <<>>
    /\ GetCreditBalance(ledger, resp.user) < SinglePageEstimate
    /\ GetCreditBalance(ledger, resp.user) > 0

\* The divisions of a list, and their ids
DivisionSet(divs) == {divs[i] : i \in 1..Len(divs)}
DivisionIdSet(divs) == {divs[i].id : i \in 1..Len(divs)}

\* C8: when the list of active divisions passed to the pipeline is
\* non-empty every item of a successful single-page response carries one of
\* those divisions and every row saved from it carries the id of one of
\* them; the synthetic division is used only when the list is empty.
C8_TaggedAgainstTaxonomy ==
    [][(IsSingleStep /\ resp'.status = 200) =>
        LET divs == resp'.divisionsData
        IN /\ \A i \in 1..Len(resp'.itemDivisions) :
                 IF divs # <<>>
                 THEN resp'.itemDivisions[i] \in DivisionSet(divs)
                 ELSE resp'.itemDivisions[i] = SyntheticDivision
           /\ \A k \in 1..Len(NewRows) :
                 IF divs # <<>>
                 THEN NewRows[k].division_id \in DivisionIdSet(divs)
                 ELSE NewRows[k].division_id = SyntheticDivision.id
      ]_vars

C8_Witness ==
    /\ resp.op = "single" /\ resp.status = 200
    /\ resp.divisionsData # <<>>
    /\ Len(resp.itemDivisions) = 2
    /\ Len(extracted) >= 2

-----------------------------------------------------------------------------
(* _find_matching_division on its own: a requested csiDivision and a list   *)
(* of available divisions with pairwise distinct ids and codes are drawn,   *)
(* the function is applied, and applied again to its own result.            *)

DivisionNames == {<<"a">>, <<"A", "b">>, <<"b">>}

AvailableDivisions ==
    [id : {1, 2, 3}, code : {"c1", "c2", "c3"}, name : DivisionNames]

DivisionLists ==
    {D \in SeqsUpTo(AvailableDivisions, MaxDivList) :
        \A i, j \in 1..Len(D) :
            i # j => D[i].id # D[j].id /\ D[i].code # D[j].code}

RequestedDivisions ==
    [id : {NoId, 1, 2}, code : {NoCode, "c1", "c2"},
     name : {<<>>, <<"a">>, <<"B">>, <<"b", "b">>, SyntheticDivision.name}]

InitMatch ==
    /\ InitApp
    /\ divisions = <<>>
    /\ apiKey
    /\ \E csi \in RequestedDivisions, D \in DivisionLists :
          probe = [kind |-> "match", phase |-> "input", csi |-> csi, divs |-> D]

MatchOnce ==
    /\ probe.kind = "match" /\ probe.phase = "input"
    /\ probe' = [kind |-> "match", phase |-> "matched",
                 csi |-> probe.csi, divs |-> probe.divs,
                 out1 |-> FindMatchingDivision(probe.csi, probe.divs)]
    /\ UNCHANGED appvars

MatchAgain ==
    /\ probe.kind = "match" /\ probe.phase = "matched"
    /\ probe' = [kind |-> "match", phase |-> "rematched",
                 csi |-> probe.csi, divs |-> probe.divs,
                 out1 |-> probe.out1,
                 out2 |-> FindMatchingDivision(probe.out1, probe.divs)]
    /\ UNCHANGED appvars

NextMatch == MatchOnce \/ MatchAgain

SpecMatch == InitMatch /\ [][NextMatch]_vars

\* C5: for every list of available divisions with pairwise distinct ids and
\* codes and every requested csiDivision, matching the result of a match
\* against the same list returns that same division.
C5_MatchingIdempotent ==
    (probe.kind = "match" /\ probe.phase = "rematched") => probe.out2 = probe.out1

C5_Witness ==
    /\ probe.kind = "match" /\ probe.phase = "rematched"
    /\ Len(probe.divs) = 2
    /\ ExactMatches(probe.csi, probe.divs) = {}
    /\ FuzzyMatches(probe.csi, probe.divs) = {2}
    /\ Contains(Lower(probe.divs[2].name), Lower(probe.divs[1].name))
    /\ probe.out2 = probe.divs[2]

-----------------------------------------------------------------------------
(* comprehensive_extraction step by step: one call on one image, with the   *)
(* steps it performs recorded in order.                                     *)

\* perform_ocr: the stripped text, or "" when anything in it raised
PerformOcr(ocrOk) == IF ocrOk THEN "text" ELSE ""

PcAfterOcrStopOnFailure(ocrOk) == IF ocrOk THEN "read" ELSE "failed"

\* perform_ocr returns on every path, so line 252 is always reached
PcAfterOcr(ocrOk) == "read"

\* open(image_path, 'rb') at line 252: an exception goes to line 286
PcAfterRead(readOk) == IF readOk THEN "smart" ELSE "failed"

\* Environments of one call, the OCR outcome included
StepInputs ==
    {in \in [ocrOk : BOOLEAN, readOk : BOOLEAN, smartLlmOk : BOOLEAN,
             parsable : BOOLEAN, items : ItemLists,
             nlpLlmOk : BOOLEAN, reqs : RequirementCounts, time : {100}] :
        /\ ~in.smartLlmOk => ~in.parsable
        /\ ~in.parsable => in.items = <<>>}

InitPipeline ==
    /\ InitApp
    /\ apiKey
    /\ \E in \in StepInputs :
          probe = [kind |-> "pipeline", pc |-> "ocr", in |-> in, trace |-> <<>>,
                   ocrText |-> "", smart |-> SmartFailure,
                   nlp |-> [success |-> FALSE, reqs |-> 0]]

AtStep(pc) == probe.kind = "pipeline" /\ probe.pc = pc

StepOcr ==
    /\ AtStep("ocr")
    /\ probe' = [probe EXCEPT !.pc = PcAfterOcr(probe.in.ocrOk),
                              !.ocrText = PerformOcr(probe.in.ocrOk),
                              !.trace = Append(@, "ocr")]
    /\ UNCHANGED appvars

StepRead ==
    /\ AtStep("read")
    /\ probe' = [probe EXCEPT !.pc = PcAfterRead(probe.in.readOk)]
    /\ UNCHANGED appvars

StepSmart ==
    /\ AtStep("smart")
    /\ probe' = [probe EXCEPT !.pc = "nlp",
                              !.smart = SmartExtractionAnalysis(probe.in, divisions),
                              !.trace = Append(@, "smart_llm")]
    /\ UNCHANGED appvars

StepNlp ==
    /\ AtStep("nlp")
    /\ probe' = [probe EXCEPT !.pc = "insights",
                              !.nlp = EnhancedNlpAnalysis(probe.in),
                              !.trace = Append(@, "nlp_llm")]
    /\ UNCHANGED appvars

StepInsights ==
    /\ AtStep("insights")
    /\ probe' = [probe EXCEPT !.pc = "done", !.trace = Append(@, "insights")]
    /\ UNCHANGED appvars

NextPipeline == StepOcr \/ StepRead \/ StepSmart \/ StepNlp \/ StepInsights

SpecPipeline == InitPipeline /\ [][NextPipeline]_vars

FullSequence == <<"ocr", "smart_llm", "nlp_llm", "insights">>

PipelineEnded == probe.kind = "pipeline" /\ probe.pc \in {"done", "failed"}

\* C9 as claimed: every call performs one OCR step, one smart-extraction
\* call, one NLP call and the insights step, in that order.
C9_AlwaysFullSequence ==
    PipelineEnded => probe.trace = FullSequence

\* C9, amended: a call whose image file can be read for encoding performs
\* one OCR step, one smart-extraction call, one NLP call and the insights
\* step, in that order, whether or not OCR failed (its text is then empty)
\* and whether or not the smart-extraction call failed; a call whose image
\* file cannot be read performs the OCR step only, and what it returns is
\* what the one-call pipeline returns.
C9_FixedSequenceWhenImageReadable ==
    /\ PipelineEnded =>
          /\ probe.trace = (IF probe.in.readOk THEN FullSequence ELSE <<"ocr">>)
          /\ probe.pc = (IF probe.in.readOk THEN "done" ELSE "failed")
          /\ probe.trace = ComprehensiveExtraction(probe.in, divisions).calls
          /\ probe.smart = ComprehensiveExtraction(probe.in, divisions).smart
          /\ probe.nlp = ComprehensiveExtraction(probe.in, divisions).nlp
    /\ (probe.kind = "pipeline" /\ probe.trace # <<>> /\ ~probe.in.ocrOk)
          => probe.ocrText = ""

C9_Witness ==
    /\ PipelineEnded
    /\ ~probe.in.ocrOk /\ probe.in.readOk /\ ~probe.in.smartLlmOk
    /\ probe.nlp.success
    /\ probe.trace = FullSequence

-----------------------------------------------------------------------------
(* _generate_combined_insights on its own: an item count and an NLP result  *)
(* are drawn and the summary is computed.                                   *)

InitInsights ==
    /\ InitApp
    /\ divisions = <<>>
    /\ apiKey
    /\ \E items \in 0..MaxItemCount, success \in BOOLEAN, reqs \in 0..MaxReqCount :
          probe = [kind |-> "insights", phase |-> "input", items |-> items,
                   nlp |-> [success |-> success, reqs |-> reqs]]

Summarise ==
    /\ probe.kind = "insights" /\ probe.phase = "input"
    /\ probe' = [kind |-> "insights", phase |-> "done", items |-> probe.items,
                 nlp |-> probe.nlp,
                 out |-> GenerateCombinedInsights(probe.items, probe.nlp)]
    /\ UNCHANGED appvars

NextInsights == Summarise

SpecInsights == InitInsights /\ [][NextInsights]_vars

\* C10: with reqs the NLP summary's totalRequirements (0 when the NLP
\* result is not successful), totalDataPoints = items + reqs,
\* requirementsCoverage = 0 if items = 0 or reqs = 0 and otherwise
\* min(100, floor(100*items/reqs)), and extractionQuality follows the
\* thresholds 15/70, 10/50, 5/30.
C10_InsightsFormula ==
    (probe.kind = "insights" /\ probe.phase = "done") =>
        LET items == probe.items
            reqs == IF probe.nlp.success THEN probe.nlp.reqs ELSE 0
            total == items + reqs
            coverage == IF items = 0 \/ reqs = 0 THEN 0
                        ELSE Min(100, PercentExact(items, reqs))
        IN /\ probe.out.totalDataPoints = total
           /\ probe.out.requirementsCoverage = coverage
           /\ probe.out.requirementsCoverage \in 0..100
           /\ probe.out.extractionQuality =
                 (IF total >= 15 /\ coverage >= 70 THEN "excellent"
                  ELSE IF total >= 10 /\ coverage >= 50 THEN "good"
                  ELSE IF total >= 5 /\ coverage >= 30 THEN "fair"
                  ELSE "poor")

-----------------------------------------------------------------------------
(* The service endpoints: /api/health, /api/ai-status,                      *)
(* /api/background-ai/status (app.py) and /api/ai/feature-toggles           *)
(* (ai_extraction.py).  They are requested between the first requests of    *)
(* the application, by a logged-in user or by nobody.                       *)

ServiceDepth == 1

Anonymous == 0

ServiceEndpoints ==
    {"/api/health", "/api/ai-status", "/api/background-ai/status",
     "/api/ai/feature-toggles"}

ServiceStatusLoginRequired(endpoint, caller) ==
    IF caller \in users THEN 200 ELSE 401

\* None of the four views is wrapped in @login_required and none raises:
\* jsonify(...) without a status is answered 200
ServiceStatus(endpoint, caller) == 200

ServiceBody(endpoint) ==
    IF endpoint = "/api/health"
    THEN [status |-> "healthy", service |-> "koncurent-hilyte-backend"]
    ELSE IF endpoint = "/api/ai-status"
    THEN [aiEnabled |-> apiKey]
    ELSE IF endpoint = "/api/background-ai/status"
    THEN [isProcessing |-> FALSE, progress |-> 0, message |-> "No active processing"]
    ELSE [aiExtraction |-> apiKey, enhancedNlp |-> TRUE,
          comprehensiveExtraction |-> TRUE, bulkProcessing |-> TRUE]

ServiceRequest(endpoint, caller) ==
    /\ caller \in users \cup {Anonymous}
    /\ probe' = [kind |-> "service", endpoint |-> endpoint, caller |-> caller,
                 status |-> ServiceStatus(endpoint, caller),
                 body |-> ServiceBody(endpoint)]
    /\ UNCHANGED appvars

NextService ==
    \/ Next /\ served' <= ServiceDepth
    \/ \E endpoint \in ServiceEndpoints, caller \in Users \cup {Anonymous} :
          ServiceRequest(endpoint, caller)

SpecService == Init /\ [][NextService]_vars

\* C11: each of the four service endpoints answers 200 in every state, with
\* or without a logged-in user, and changes neither users, ledger, drawings
\* nor extracted data; the background status reports isProcessing = FALSE.
C11_ServiceEndpointsAlways200 ==
    [][(probe' # probe) =>
        /\ probe'.kind = "service"
        /\ probe'.status = 200
        /\ <<users, ledger, drawings, extracted>>' = <<users, ledger, drawings, extracted>>
        /\ (probe'.endpoint = "/api/background-ai/status"
               => probe'.body.isProcessing = FALSE)
        /\ \A endpoint \in ServiceEndpoints :
              ENABLED ServiceRequest(endpoint, Anonymous)
      ]_vars

C11_Witness ==
    /\ probe.kind = "service" /\ probe.caller = Anonymous
    /\ probe.endpoint = "/api/background-ai/status"
    /\ extracted # <<>> /\ Len(ledger) = 2

-----------------------------------------------------------------------------
(* Two single-page requests of one user for the same page, served by two    *)
(* threads: the steps of SinglePage from the state in which the user has    *)
(* registered and uploaded a one-page drawing.                              *)

\* totalTime values that cost no more than the estimate: 1 s and 12.5 s,
\* 500 and 2500 tokens
ConcurrentTimes == {100, 1250}

ConcurrentInputs ==
    {in \in [ocrOk : {TRUE}, readOk : {TRUE}, smartLlmOk : BOOLEAN,
             parsable : BOOLEAN, items : {<<>>, <<ItemById>>},
             nlpLlmOk : {TRUE}, reqs : RequirementCounts, time : ConcurrentTimes] :
        /\ in.parsable = in.smartLlmOk
        /\ ~in.parsable => in.items = <<>> /\ in.time = 100}

InitConcurrent ==
    /\ OneDrawingUploadedAndUsed
    /\ served = MaxRequests - Cardinality(Workers)
    /\ probe = [kind |-> "concurrent"]

NextConcurrent ==
    /\ \/ SinglePageBegin(ConcurrentUser, ConcurrentDrawing, ConcurrentPage, TRUE)
       \/ \E id \in DOMAIN inflight : SinglePageSteps(id, ConcurrentInputs)
    /\ UNCHANGED probe

SpecConcurrent == InitConcurrent /\ [][NextConcurrent]_vars

RunningBalance(L, i) ==
    SumSeq([k \in 1..Len(UserTx(SubSeq(L, 1, i), L[i].user_id)) |->
               UserTx(SubSeq(L, 1, i), L[i].user_id)[k].amount])

\* C12: the balance field of every transaction is the sum of the amounts of
\* its user's transactions up to and including it, in commit order.
C12_BalanceFieldIsRunningSum ==
    \A i \in 1..Len(ledger) : ledger[i].balance = RunningBalance(ledger, i)

AllWithinEstimate ==
    \A id \in DOMAIN inflight :
        inflight[id].pc \in {"read_balance", "commit_usage", "save_rows"}
            => CreditCost(TokensUsed(inflight[id].result.totalTime))
                  <= SinglePageEstimate

\* C13: when every extraction of the two interleaved requests costs no more
\* than the estimate, the user's balance never falls below zero.
C13_InterleavedNeverNegative ==
    (probe.kind = "concurrent" /\ AllWithinEstimate)
        => GetCreditBalance(ledger, ConcurrentUser) >= 0

-----------------------------------------------------------------------------
(* Ownership of drawings and rows, checked under Spec *)

NoAppChange ==
    <<users, ledger, drawings, pageFiles, extracted, divisions>>'
        = <<users, ledger, drawings, pageFiles, extracted, divisions>>

\* Every row is a comprehensive_extraction row of an existing drawing,
\* carrying the user_id of the drawing's owner
RowsBelongToOwner ==
    \A k \in 1..Len(extracted) :
        /\ extracted[k].type = "comprehensive_extraction"
        /\ extracted[k].drawing_id \in 1..Len(drawings)
        /\ extracted[k].user_id = drawings[extracted[k].drawing_id].user_id

\* Rows are added by the step that answers a request, and carry the id of
\* the user who made it and of the drawing it named
NewRowsBelongToCaller ==
    /\ IsPrefix(extracted, extracted')
    /\ \A k \in 1..Len(NewRows) :
          /\ IsAnswer
          /\ NewRows[k].user_id = resp'.user
          /\ NewRows[k].drawing_id = resp'.drawing

\* A single-page or bulk request arrives for a drawing that does not exist
\* or belongs to another user
ArrivesForForeignDrawing ==
    /\ Arrives
    /\ Arrived.op \in {"single", "bulk"}
    /\ ~DrawingAccessible(Arrived.user, Arrived.drawing)

\* C14 as claimed: every single-page or bulk request for a drawing that does
\* not exist or belongs to another user is answered 404 with no state
\* change, and every row is a comprehensive_extraction row whose user_id is
\* its drawing's owner and the caller of the request that created it.
C14_ForeignDrawingAlways404 ==
    [][/\ ArrivesForForeignDrawing
          => AnsweredAtOnce /\ resp'.status = 404 /\ NoAppChange
       /\ RowsBelongToOwner'
       /\ NewRowsBelongToCaller
      ]_vars

\* C14, amended: a bulk request, or a single-page request whose JSON body
\* can be read, for a drawing that does not exist or belongs to another user
\* is answered 404; a single-page request whose body cannot be read is
\* answered 500; both are answered before anything is processed and neither
\* changes the state; and every row is a comprehensive_extraction row whose
\* user_id is its drawing's owner and the caller of the request that
\* created it.
C14_ConfinedToOwnDrawings ==
    [][/\ ArrivesForForeignDrawing
          => /\ AnsweredAtOnce
             /\ NoAppChange
             /\ resp'.calls = <<>>
             /\ resp'.status = (IF resp'.bodyOk THEN 404 ELSE 500)
             /\ resp'.bodyOk =>
                   resp'.error = "Drawing not found or access denied"
       /\ RowsBelongToOwner'
       /\ NewRowsBelongToCaller
      ]_vars

C14_Witness ==
    /\ resp.op = "single" /\ resp.bodyOk /\ resp.status = 404
    /\ resp.drawing \in 1..Len(drawings)
    /\ drawings[resp.drawing].user_id # resp.user
    /\ PageImageExists(resp.page)
    /\ resp.user \in users

-----------------------------------------------------------------------------
(* Which upload rendered the page image a request analyses *)

\* C15: the image a single-page or bulk extraction of a PDF drawing D
\* analyses for a page is the image rendered when D was uploaded: both the
\* file the OCR opened and the file read for the LLM calls (when the
\* pipeline got that far) were written by the upload of D.
C15_ReadsOwnPageImage ==
    [][/\ (IsSingleStep /\ resp'.calls # <<>>
              /\ drawings[resp'.drawing].file_type = "pdf")
          => /\ resp'.ocrImage = drawings[resp'.drawing].upload
             /\ resp'.image = drawings[resp'.drawing].upload
       /\ (IsBulkStep /\ resp'.pageTrace # <<>>
              /\ drawings[resp'.drawing].file_type = "pdf")
          => \A i \in 1..Len(resp'.pageTrace) :
                /\ resp'.pageTrace[i].ocrImage = drawings[resp'.drawing].upload
                /\ resp'.pageTrace[i].image = drawings[resp'.drawing].upload
      ]_vars

-----------------------------------------------------------------------------
(* What a bulk request processes and reports, checked under Spec *)

AllPagesSucceeded ==
    /\ Len(resp'.pageTrace) = drawings[resp'.drawing].total_pages
    /\ \A i \in 1..Len(resp'.pageTrace) : resp'.pageTrace[i].success

\* C16: a bulk request over a drawing whose page images all exist and whose
\* page extractions all succeed answers 200 with processedPages =
\* total_pages and has appended exactly one usage transaction per page; a
\* page whose image is missing or whose extraction fails gets no
\* transaction.
C16_BulkProcessesEveryPage ==
    [][(IsBulkStep /\ resp'.status = 200) =>
        /\ resp'.appended <= Len(SelectSeq(resp'.pageTrace, LAMBDA o : o.success))
        /\ AllPagesSucceeded =>
              /\ resp'.processedPages = drawings[resp'.drawing].total_pages
              /\ resp'.appended = drawings[resp'.drawing].total_pages
      ]_vars

\* C17: in every 200 response of a bulk request, totalCost is the sum the
\* request has deducted from the user's ledger, totalTokensUsed is the sum
\* of the tokensUsed of its page results, and totalItemsExtracted is the
\* number of rows it commits.
C17_BulkTotalsMatchPersisted ==
    [][(IsBulkStep /\ resp'.status = 200) =>
        /\ IsPrefix(extracted, extracted')
        /\ resp'.cost = resp'.deducted
        /\ resp'.tokensUsed =
              SumSeq([k \in 1..Len(resp'.pageResults) |->
                         resp'.pageResults[k].tokensUsed])
        /\ resp'.savedItemsCount = Len(NewRows)
      ]_vars

C17_Witness ==
    /\ resp.op = "bulk" /\ resp.status = 200
    /\ Len(resp.pageTrace) = 2
    /\ resp.pageTrace[1].success /\ ~resp.pageTrace[2].success
    /\ resp.pageTrace[1].itemDivisions # <<>>

-----------------------------------------------------------------------------
(* A failed credit deduction, checked under Spec *)

\* C18: a deduct_credits call that returns None leaves the ledger unchanged,
\* and a single-page request whose extraction succeeded and whose deduction
\* failed answers 500 'Credit deduction failed', having appended no
\* transaction, and commits no row.
C18_FailedDeductionLeavesNoTrace ==
    [][/\ \A u \in Users, commitOk \in BOOLEAN :
             LET r == DeductCredits(users, ledger, u, CreditCost(MinTokens),
                                    "comprehensive_extraction", MinTokens, commitOk)
             IN /\ ~r.ok => r.ledger = ledger
                /\ (u \notin users \/ ~commitOk) => ~r.ok
       /\ \A w \in DOMAIN inflight :
             (Acts(w) /\ inflight[w].pc = "commit_usage" /\ ledger' = ledger)
             => /\ Leaves(w)
                /\ resp'.op = "single"
                /\ resp'.status = 500
                /\ resp'.error = "Credit deduction failed"
       /\ (IsSingleStep /\ resp'.error = "Credit deduction failed")
             => /\ resp'.smartSuccess
                /\ resp'.appended = 0
                /\ ledger' = ledger
                /\ extracted' = extracted
      ]_vars

C18_Witness ==
    /\ resp.op = "single" /\ resp.status = 500
    /\ resp.error = "Credit deduction failed"
    /\ resp.smartSuccess
    /\ resp.appended = 0
    /\ GetCreditBalance(ledger, resp.user) = SignupBonus

-----------------------------------------------------------------------------
(* Registration and the signup bonus, checked under Spec *)

IsRegisterStep == AnsweredAtOnce /\ resp'.op = "register"

BonusCount(L, u) ==
    Len(SelectSeq(L, LAMBDA t : t.user_id = u /\ t.type = "signup_bonus"))

\* C19: a successful registration adds the user and, in the same step,
\* exactly one signup_bonus transaction of amount 10 with balance 10, so the
\* new user's balance is 10; a failed registration adds neither; and every
\* user has exactly one signup_bonus after every later step of any request.
C19_OneSignupBonusPerUser ==
    [][/\ (IsRegisterStep /\ resp'.status = 201)
          => /\ resp'.user \notin users
             /\ users' = users \cup {resp'.user}
             /\ Len(ledger') = Len(ledger) + 1
             /\ SubSeq(ledger', 1, Len(ledger)) = ledger
             /\ ledger'[Len(ledger')].type = "signup_bonus"
             /\ ledger'[Len(ledger')].user_id = resp'.user
             /\ ledger'[Len(ledger')].amount = SignupBonus
             /\ ledger'[Len(ledger')].balance = SignupBonus
             /\ GetCreditBalance(ledger', resp'.user) = SignupBonus
       /\ (IsRegisterStep /\ resp'.status # 201)
          => users' = users /\ ledger' = ledger
       /\ \A u \in Users :
             BonusCount(ledger', u) = (IF u \in users' THEN 1 ELSE 0)
      ]_vars

C19_Witness ==
    /\ users = Users
    /\ \A u \in Users : BonusCount(ledger, u) = 1
    /\ \E u \in Users : UsageCount(ledger, u) = 1
    /\ resp.op = "register" /\ resp.status = 201

-----------------------------------------------------------------------------
(* credits.get_balance, and the frame of the ledger, checked under Spec *)

\* GET /api/ai-credits/balance for the logged-in user u
GetBalance(u) ==
    [balance |-> GetCreditBalance(ledger, u), monthlySpent |-> 0, totalSpent |-> 0]

\* The sum of the amounts of u's transactions, taken over the ledger itself
RECURSIVE OwnAmounts(_, _)
OwnAmounts(L, u) ==
    IF L = <<>> THEN 0
    ELSE (IF Head(L).user_id = u THEN Head(L).amount ELSE 0) + OwnAmounts(Tail(L), u)

\* The step is a step of an extraction request of user u that has a
\* successful extraction to bill
BillsExtractionOf(u) ==
    \E w \in DOMAIN inflight :
        /\ Acts(w)
        /\ inflight[w].r.user = u
        /\ \/ inflight[w].r.op = "single" /\ inflight[w].r.smartSuccess
           \/ /\ inflight[w].r.op = "bulk"
              /\ ~Leaves(w)
              /\ inflight'[w].acc.pageTrace # <<>>
              /\ inflight'[w].acc.pageTrace[Len(inflight'[w].acc.pageTrace)].success

\* C20: a user's balance is the sum of the amounts of that user's own
\* transactions; it changes only by that user's registration (+10) and by a
\* deduction of that user's own successful extraction; no step modifies or
\* deletes a transaction; and no step of one user's request changes another
\* user's transactions or balance.
C20_LedgersIsolatedAppendOnly ==
    [][/\ IsPrefix(ledger, ledger')
       /\ \A u \in Users :
             /\ GetBalance(u).balance = OwnAmounts(ledger, u)
             /\ IsPrefix(UserTx(ledger, u), UserTx(ledger', u))
             /\ UserTx(ledger', u) # UserTx(ledger, u)
                   => \/ /\ IsRegisterStep /\ resp'.status = 201
                         /\ resp'.user = u
                         /\ OwnAmounts(ledger, u) = 0
                         /\ OwnAmounts(ledger', u) = SignupBonus
                      \/ /\ BillsExtractionOf(u)
                         /\ OwnAmounts(ledger', u) < OwnAmounts(ledger, u)
      ]_vars

C20_Witness ==
    /\ users = Users
    /\ resp.op = "single" /\ resp.status = 200
    /\ GetBalance(resp.user).balance < SignupBonus
    /\ \E u \in Users : u # resp.user /\ GetBalance(u).balance = SignupBonus

-----------------------------------------------------------------------------
(* The priority of _find_matching_division, checked under SpecMatch *)

\* The requested division names division i by id or by code
MatchesIdOrCode(csi, div) == div.id = csi.id \/ div.code = csi.code

\* The lower-cased names contain one another
MatchesName(csi, div) ==
    \/ Contains(Lower(div.name), Lower(csi.name))
    \/ Contains(Lower(csi.name), Lower(div.name))

\* C21: the result is the first division in list order whose id or code
\* equals the requested one; only if there is none, the first division whose
\* lower-cased name contains or is contained in the lower-cased requested name
\* (so an empty or missing requested name selects the first division); only if
\* there is none, the first division of the list.  An empty list gives the
\* built-in General division.
C21_MatchingPriority ==
    (probe.kind = "match" /\ probe.phase = "matched") =>
        LET csi == probe.csi
            D == probe.divs
            out == probe.out1
            byKey == {i \in 1..Len(D) : MatchesIdOrCode(csi, D[i])}
            byName == {i \in 1..Len(D) : MatchesName(csi, D[i])}
        IN  /\ byKey # {} =>
                 \E i \in byKey : out = D[i] /\ \A j \in byKey : i <= j
            /\ (byKey = {} /\ byName # {}) =>
                 \E i \in byName : out = D[i] /\ \A j \in byName : i <= j
            /\ (byKey = {} /\ csi.name = <<>> /\ Len(D) > 0) => out = D[1]
            /\ (byKey = {} /\ byName = {} /\ Len(D) > 0) => out = D[1]
            /\ Len(D) = 0 => out = SyntheticDivision

\* Two divisions match by id and by code, an earlier one matches by name only
\* in a second way: here the second of the list is named by code, the first by
\* id, and the first is returned.
C21_Witness ==
    /\ probe.kind = "match" /\ probe.phase = "matched"
    /\ Len(probe.divs) = 2
    /\ probe.divs[1].id = probe.csi.id
    /\ probe.divs[2].code = probe.csi.code
    /\ MatchesName(probe.csi, probe.divs[2])
    /\ ~MatchesName(probe.csi, probe.divs[1])
    /\ probe.out1 = probe.divs[1]

-----------------------------------------------------------------------------
(* _parse_smart_extraction_response on its own: a response text, the items  *)
(* and summary its JSON document decodes to, and a list of divisions are    *)
(* drawn, and the function is applied.                                      *)

MaxTextLen == 4

ResponseTexts == SeqsUpTo({"{", "}", "I", "w", "t"}, MaxTextLen)

\* An element of extractedItems whose location is null
ItemNullLocation ==
    [csi |-> [id |-> 1, code |-> NoCode, name |-> <<"a">>],
     coordsOk |-> FALSE, locationOk |-> FALSE]

ResponseItemLists ==
    {<<>>, <<ItemById>>, <<ItemByName, ItemById>>,
     <<ItemById, ItemNullLocation>>, <<ItemNullLocation, ItemById>>}

ResponseSummaries ==
    {NoSummary, [present |-> TRUE, totalItemsFound |-> 2, divisionsFound |-> 1]}

Responses ==
    [text : ResponseTexts, items : ResponseItemLists, summary : ResponseSummaries]

InitParse ==
    /\ InitApp
    /\ divisions = <<>>
    /\ apiKey
    /\ \E response \in Responses, D \in {<<>>, SeedDivisions} :
          probe = [kind |-> "parse", phase |-> "input",
                   response |-> response, divs |-> D]

ParseOnce ==
    /\ probe.kind = "parse" /\ probe.phase = "input"
    /\ probe' = [kind |-> "parse", phase |-> "parsed",
                 response |-> probe.response, divs |-> probe.divs,
                 out |-> ParseSmartExtractionResponse(probe.response, probe.divs)]
    /\ UNCHANGED appvars

NextParse == ParseOnce

SpecParse == InitParse /\ [][NextParse]_vars

\* The extractedItems of the JSON document between the first '{' and the
\* last '}' of the text
DocumentItems(response) ==
    JsonLoads(JsonSlice(ConcreteText(response)), response).items

\* C22: the parse result is either success with exactly one processed item
\* per element of the response's extractedItems, in the same order, or
\* failure with an empty item list and the summary {totalItemsFound 0,
\* divisionsFound 0}; never a partial list; and a text without '{' or
\* without '}' gives the failure result.
C22_ParseAllOrNothing ==
    (probe.kind = "parse" /\ probe.phase = "parsed") =>
        LET r == probe.response
            out == probe.out
        IN  /\ out.success =>
                  /\ Len(out.extractedItems) = Len(DocumentItems(r))
                  /\ \A i \in 1..Len(out.extractedItems) :
                        out.extractedItems[i].csiDivision.id =
                            FindMatchingDivision(DocumentItems(r)[i].csi, probe.divs).id
            /\ ~out.success =>
                  /\ out.extractedItems = <<>>
                  /\ out.summary =
                        [present |-> TRUE, totalItemsFound |-> 0, divisionsFound |-> 0]
            /\ ((\A i \in 1..Len(ConcreteText(r)) : ConcreteText(r)[i] # "{")
                    \/ (\A i \in 1..Len(ConcreteText(r)) : ConcreteText(r)[i] # "}"))
                  => ~out.success

\* A document inside prose whose second item cannot be processed: the first
\* item is dropped with it
C22_Witness ==
    /\ probe.kind = "parse" /\ probe.phase = "parsed"
    /\ probe.response.text = <<"t", "{", "I", "}">>
    /\ probe.response.items = <<ItemById, ItemNullLocation>>
    /\ probe.divs = SeedDivisions
    /\ ~probe.out.success
    /\ probe.out.extractedItems = <<>>

-----------------------------------------------------------------------------
(* One single-page request with the outcome of the NLP call on record: a    *)
(* registered user with one uploaded one-page drawing, a full balance or    *)
(* 0.25 left, asks for the page.                                            *)

NlpDepth == 1

InitNlp ==
    /\ OneDrawingUploadedAndUsed
    /\ served = MaxRequests - NlpDepth
    /\ probe = [kind |-> "nlp", n |-> 0, nlpOk |-> FALSE, items |-> <<>>]

\* A request arrives when the one before it has been answered
NlpArrives ==
    /\ probe.kind = "nlp" /\ probe.n < NlpDepth
    /\ DOMAIN inflight = {}
    /\ SinglePageBegin(ConcurrentUser, ConcurrentDrawing, ConcurrentPage, TRUE)
    /\ probe' = [probe EXCEPT !.n = probe.n + 1]

\* The pipeline runs in the environment `in`, which goes on record
NlpPipeline(in) ==
    /\ \E id \in DOMAIN inflight : SinglePageExtraction(id, {in})
    /\ probe' = [probe EXCEPT !.nlpOk = in.nlpLlmOk, !.items = in.items]

\* The credit check, the OCR, the deduction and the rows
NlpBilling ==
    /\ \E id \in DOMAIN inflight :
          \/ SinglePageCheckCredits(id)
          \/ SinglePageOcr(id)
          \/ SinglePageReadBalance(id)
          \/ \E commitOk \in BOOLEAN : SinglePageCommitUsage(id, commitOk)
          \/ \E commitOk \in BOOLEAN : SinglePageSaveRows(id, commitOk)
    /\ UNCHANGED probe

NextNlp ==
    \/ NlpArrives
    \/ \E in \in PipelineInputs : NlpPipeline(in)
    \/ NlpBilling

SpecNlp == InitNlp /\ [][NextNlp]_vars

\* The request answered had a successful smart extraction and a failed NLP call
SmartOnlyStep ==
    /\ IsSingleStep
    /\ resp'.calls # <<>>
    /\ resp'.smartSuccess
    /\ ~probe'.nlpOk

\* The items of the response whose row the handler can build
BuildableItems(items) == Len(SelectSeq(items, LAMBDA raw : raw.coordsOk))

\* C23 as stated: when smart extraction succeeds and the NLP call fails the
\* request answers 200, deducts once and saves the extracted items without
\* nlpContext.
C23_NlpFailureAlways200 ==
    [][SmartOnlyStep =>
          /\ resp'.status = 200
          /\ resp'.appended = 1
          /\ Len(NewRows) = Len(probe'.items)
          /\ \A k \in 1..Len(NewRows) : ~NewRows[k].nlpContext
      ]_vars

\* C23: a failed NLP call does not block extraction or billing.  When smart
\* extraction succeeds and the NLP call fails, the request answers 200,
\* having deducted once, and saves every item whose row can be built,
\* without nlpContext, unless the deduction fails (500, nothing billed or
\* saved) or the commit of the rows fails (500, billed once, nothing saved);
\* and a saved row carries nlpContext only when the NLP result has
\* success = true.
C23_NlpFailureDoesNotBlock ==
    [][/\ SmartOnlyStep =>
            \/ /\ resp'.status = 200
               /\ resp'.appended = 1
               /\ Len(NewRows) = BuildableItems(probe'.items)
               /\ resp'.savedItemsCount = Len(NewRows)
               /\ \A k \in 1..Len(NewRows) : ~NewRows[k].nlpContext
            \/ /\ resp'.status = 500
               /\ resp'.error = "Credit deduction failed"
               /\ resp'.appended = 0
               /\ ledger' = ledger /\ extracted' = extracted
            \/ /\ resp'.status = 500
               /\ resp'.error = "Comprehensive extraction failed"
               /\ resp'.appended = 1
               /\ extracted' = extracted
       /\ IsSingleStep =>
            \A k \in 1..Len(NewRows) : NewRows[k].nlpContext = probe'.nlpOk
      ]_vars

C23_Witness ==
    /\ probe.kind = "nlp" /\ probe.n = 1
    /\ ~probe.nlpOk
    /\ resp.status = 200 /\ resp.smartSuccess
    /\ resp.savedItemsCount = 2
    /\ Len(extracted) = 2
    /\ \A k \in 1..Len(extracted) : ~extracted[k].nlpContext
    /\ UsageCount(ledger, ConcurrentUser) = 1

-----------------------------------------------------------------------------
(* When the extraction quality is 'poor', checked under SpecInsights *)

\* C24: the extraction quality is 'poor' whenever the NLP requirement count
\* is 0 or the NLP analysis failed, whatever the number of extracted items,
\* and whenever no item was extracted; 'excellent', 'good' and 'fair' occur
\* only when both counts are positive.
C24_PoorWithoutBothCounts ==
    (probe.kind = "insights" /\ probe.phase = "done") =>
        /\ (probe.nlp.reqs = 0 \/ ~probe.nlp.success \/ probe.items = 0)
              => probe.out.extractionQuality = "poor"
        /\ probe.out.extractionQuality \in {"excellent", "good", "fair"}
              => probe.items > 0 /\ probe.nlp.success /\ probe.nlp.reqs > 0
        /\ probe.out.extractionQuality \in {"excellent", "good", "fair", "poor"}

\* Twenty items and a failed NLP analysis whose data names thirty
\* requirements: poor, although the same counts from a successful analysis
\* would be rated
C24_Witness ==
    /\ probe.kind = "insights" /\ probe.phase = "done"
    /\ probe.items = 20
    /\ ~probe.nlp.success /\ probe.nlp.reqs = 30
    /\ probe.out.totalDataPoints = 20
    /\ probe.out.requirementsCoverage = 0
    /\ probe.out.extractionQuality = "poor"
    /\ GenerateCombinedInsights(20, [success |-> TRUE, reqs |-> 30]).extractionQuality
          = "good"

====
